---- MODULE Spec2Model ----
(***************************************************************************)
(* State-machine model of PyNN's neuron2 engine-state coordinator          *)
(* (src/neuron2/simulator.py: Recorder, _State, reset, run, register_gid,  *)
(* single_connect) and of the NEST 9ML cell-type builder                   *)
(* (src/nest/nineml.py: _nest_build_nineml_celltype.__new__).              *)
(*                                                                         *)
(* Units.  Simulation times (t, tstop, spike times, run durations) are     *)
(* integers counted in units of the tolerance of Recorder.get (1e-9), so   *)
(* that "spikes <= state.t + 1e-9" is "s <= t + Tol" with Tol = 1.         *)
(* Delays are integers in ms.  Weights are integers in tenths (25 = 2.5).  *)
(***************************************************************************)
EXTENDS Integers, Sequences, FiniteSets, TLC

\* ------------------------------------------------------------------ bounds
MaxGid == 6
MaxConns == 1
MaxRuns == 2
MaxRecordLen == 2
MaxSyn == 2
MaxRegistered == 3
MaxItems == 2

\* --------------------------------------------------------------- constants
Tol == 1
MaxStep == 10
DEFAULT_WEIGHT == 0

\* Python's None and a present value, as sequences of length 0 and 1
None == <<>>
Some(x) == <<x>>

\* ------------------------------------------------------------ input domains
Ids == {1, 2}
LocalIds == {1}
SimTimes == {30, 50}
SpikeTimes == {1, 2, 40}
Voltages == {-65}
Weights == {-25, 0, 25}
Delays == {0, 1}
MinDelays == {0, 1, 11}
SynTypes == {"excitatory", "inhibitory"}
GidSteps == {5}

IF_cond_exp == <<"I", "F", "_", "c", "o", "n", "d", "_", "e", "x", "p">>
IF_curr_exp == <<"I", "F", "_", "c", "u", "r", "r", "_", "e", "x", "p">>
CellClasses == {IF_cond_exp, IF_curr_exp}

\* A source argument: a Python value that is an int (isint) or is not (a
\* float, a string, ...), with its numeric value.
IntSrc(n) == [isint |-> TRUE, v |-> n]
NonIntSrc(n) == [isint |-> FALSE, v |-> n]
Sources == {IntSrc(-1), IntSrc(0), IntSrc(5), IntSrc(MaxGid + 1), NonIntSrc(0)}
\* A target argument: an object that is or is not a common.IDMixin, with the
\* name of its cell class.
Targets == [idmixin : BOOLEAN, id : {1}, cellclass : CellClasses]
OptWeights == {None} \cup {Some(w) : w \in Weights}
OptDelays == {None} \cup {Some(d) : d \in Delays}
OptSynTypes == {None} \cup {Some(s) : s \in SynTypes}

VARIABLES
    gid_counter,      \* state.gid_counter
    running,          \* state.running
    initialized,      \* state.initialized
    min_delay,        \* h.min_delay
    tstop,            \* h.tstop
    t,                \* h.t
    num_processes,    \* state.num_processes
    mpi_rank,         \* state.mpi_rank
    gid2node,         \* gids bound by parallel_context.set_gid2node/cell
    netcons,          \* the NetCons made by parallel_context.gid_connect
    rec,              \* the Recorder: variable, population, recorded
    traces,           \* per id: number of record(1) and record_v(1) calls
    spiketimes,       \* per id: id._cell.spiketimes
    vtrace,           \* per id: id._cell.record_times paired with vtrace
    session,          \* history of the running session (since the last reset)
    lastCall,         \* the last operation called: arguments and outcome
    initializer,      \* the _Initializer: its lists and its memb_init calls
    b                 \* the state of one cell-type construction

vars == <<gid_counter, running, initialized, min_delay, tstop, t,
          num_processes, mpi_rank, gid2node, netcons, rec, traces,
          spiketimes, vtrace, session, lastCall, initializer, b>>

\* The variables of the coordinator, which a cell-type construction leaves alone
simvars == <<gid_counter, running, initialized, min_delay, tstop, t,
             num_processes, mpi_rank, gid2node, netcons, rec, traces,
             spiketimes, vtrace, session, lastCall, initializer>>

\* ----------------------------------------------------------------- helpers
Min(S) == CHOOSE x \in S : \A y \in S : x <= y
Abs(x) == IF x < 0 THEN -x ELSE x
Range(s) == {s[i] : i \in 1..Len(s)}
SeqsUpTo(S, n) == UNION {[1..k -> S] : k \in 0..n}

\* "sub in s" for Python strings
Contains(sub, s) ==
    \E i \in 0..(Len(s) - Len(sub)) :
        \A j \in 1..Len(sub) : s[i + j] = sub[j]

NewSession ==
    [runs |-> 0, inits |-> 0, psolves |-> 0, sumDur |-> 0, checked |-> FALSE]
IdleBuild == [pc |-> "idle"]

\* ------------------------------------------------------------- _Initializer
SpikeSourcePoisson ==
    <<"S", "p", "i", "k", "e", "S", "o", "u", "r", "c", "e",
      "P", "o", "i", "s", "s", "o", "n">>

\* An individual cell: its id and whether its _cell has memb_init
Cell(id, has) == [kind |-> "cell", id |-> id, memb_init |-> has]
\* A common.Population: the class name of its cell type and its member cells
Population(celltype, cells) ==
    [kind |-> "population", celltype |-> celltype, cells |-> cells]
\* The items handed to _Initializer.register
Items ==
    {Cell(1, TRUE), Cell(2, TRUE), Cell(3, FALSE),
     Population(IF_curr_exp, <<4, 5>>), Population(IF_cond_exp, <<6>>),
     Population(SpikeSourcePoisson, <<7>>)}

\* _Initializer.__init__; registered is the history of the items handed to
\* register, memb_inits the memb_init calls of the last initialize callback
InitializerInit ==
    initializer = [cell_list |-> <<>>, population_list |-> <<>>,
                   registered |-> <<>>, memb_inits |-> <<>>]

\* isinstance(item, common.Population)
IsPopulation(item) == item.kind = "population"

\* "Source" in item.celltype.__class__.__name__
IsSpikeSource(population) ==
    Contains(<<"S", "o", "u", "r", "c", "e">>, population.celltype)

\* The body of the loop of register, for one item
RegisterOne(lists, item) ==
    IF IsPopulation(item)
    THEN IF ~IsSpikeSource(item)
         THEN [lists EXCEPT !.population_list = Append(@, item)]
         ELSE lists
    ELSE IF item.memb_init
         THEN [lists EXCEPT !.cell_list = Append(@, item)]
         ELSE lists

RECURSIVE RegisterAll(_, _)
RegisterAll(lists, items) ==
    IF items = <<>>
    THEN lists
    ELSE RegisterAll(RegisterOne(lists, Head(items)), Tail(items))

\* The cells of a sequence of populations, population after population
RECURSIVE Members(_)
Members(populations) ==
    IF populations = <<>>
    THEN <<>>
    ELSE Head(populations).cells \o Members(Tail(populations))

initialize_popsfirst ==
    Members(initializer.population_list)
        \o [k \in 1..Len(initializer.cell_list) |->
               initializer.cell_list[k].id]

\* The cells memb_init is called on by _Initializer.initialize, in order
initialize ==
    [k \in 1..Len(initializer.cell_list) |-> initializer.cell_list[k].id]
        \o Members(initializer.population_list)

register(items) ==
    /\ Len(initializer.registered) + Len(items) <= MaxRegistered
    /\ initializer' =
          [RegisterAll(initializer, items)
              EXCEPT !.registered = initializer.registered \o items]
    /\ lastCall' = [op |-> "register", items |-> items]
    /\ UNCHANGED <<gid_counter, running, initialized, min_delay, tstop, t,
                   num_processes, mpi_rank, gid2node, netcons, rec, traces,
                   spiketimes, vtrace, session, b>>

\* ------------------------------------------------------------------- _State
StateInit ==
    /\ gid_counter = 0
    /\ running = FALSE
    /\ initialized = FALSE
    /\ min_delay = 0
    /\ tstop = 0
    /\ t = 0
    /\ num_processes \in {1, 2}
    /\ mpi_rank \in 0..(num_processes - 1)

\* Recorder.__init__
RecorderInit ==
    /\ rec \in [variable : {"spikes", "v"},
                population : {None, Some([_local_ids |-> LocalIds])},
                recorded : {{}}]
    /\ traces = [id \in Ids |-> [spikes |-> 0, v |-> 0]]

Init ==
    /\ StateInit
    /\ RecorderInit
    /\ gid2node = {}
    /\ netcons = <<>>
    /\ spiketimes = [id \in Ids |-> {}]
    /\ vtrace = [id \in Ids |-> {}]
    /\ session = NewSession
    /\ lastCall = [op |-> "none"]
    /\ InitializerInit
    /\ b = IdleBuild

\* state.min_delay = val (the property setter of h_property('min_delay'))
set_min_delay(val) ==
    /\ min_delay' = val
    /\ lastCall' = [op |-> "set_min_delay", val |-> val]
    /\ UNCHANGED <<gid_counter, running, initialized, tstop, t, num_processes,
                   mpi_rank, gid2node, netcons, rec, traces, spiketimes,
                   vtrace, session, initializer, b>>

\* ------------------------------------------------------------ reset and run
reset_keepstop ==
    /\ running' = FALSE
    /\ t' = 0
    /\ session' = NewSession
    /\ lastCall' = [op |-> "reset"]
    /\ UNCHANGED <<gid_counter, initialized, min_delay, tstop, num_processes,
                   mpi_rank, gid2node, netcons, rec, traces, spiketimes,
                   vtrace, initializer, b>>

reset_keeprunning ==
    /\ t' = 0
    /\ tstop' = 0
    /\ session' = NewSession
    /\ lastCall' = [op |-> "reset"]
    /\ UNCHANGED <<gid_counter, running, initialized, min_delay,
                   num_processes, mpi_rank, gid2node, netcons, rec, traces,
                   spiketimes, vtrace, initializer, b>>

reset_cleargid ==
    /\ running' = FALSE
    /\ t' = 0
    /\ tstop' = 0
    /\ gid_counter' = 0
    /\ session' = NewSession
    /\ lastCall' = [op |-> "reset"]
    /\ UNCHANGED <<initialized, min_delay, num_processes, mpi_rank, gid2node,
                   netcons, rec, traces, spiketimes, vtrace, initializer, b>>

reset ==
    /\ running' = FALSE
    /\ t' = 0
    /\ tstop' = 0
    /\ session' = NewSession
    /\ lastCall' = [op |-> "reset"]
    /\ UNCHANGED <<gid_counter, initialized, min_delay, num_processes,
                   mpi_rank, gid2node, netcons, rec, traces, spiketimes,
                   vtrace, initializer, b>>

\* parallel_context.set_maxstep(10): the smallest NetCon delay, at most 10
set_maxstep(maxstep) ==
    Min({maxstep} \cup {netcons[i].delay : i \in 1..Len(netcons)})

\* The trace vectors after h.finitialize(): the engine either empties the
\* recording vectors or keeps their contents.
finitialize(vec, keep) == IF keep THEN vec ELSE [id \in Ids |-> {}]

\* The time after parallel_context.psolve(stop) started at time now
psolve(now, stop) == IF now < stop THEN stop ELSE now

\* The spikes an integration from time now to time later may add to the
\* spike vector of a cell whose spike trace is enabled
MaySpike(id, now, later) ==
    IF traces[id].spikes > 0
    THEN SUBSET {s \in SpikeTimes : now < s /\ s <= later}
    ELSE {{}}

\* The samples an integration from now to later adds to the voltage trace
Samples(id, now, later) ==
    IF traces[id].v > 0 /\ now < later
    THEN {<<later, v>> : v \in Voltages}
    ELSE {}

AssertFails_anyproc(local_minimum_delay) ==
    ~(local_minimum_delay >= min_delay)

\* The assert of run fails: more than one process and a computed minimum
\* delay smaller than the configured one
AssertFails(local_minimum_delay) ==
    num_processes > 1 /\ ~(local_minimum_delay >= min_delay)

run(simtime) ==
    /\ session.runs < MaxRuns
    /\ LET first == ~running
           local_minimum_delay == set_maxstep(MaxStep)
           raises == first /\ AssertFails(local_minimum_delay)
           t0 == IF first THEN 0 ELSE t
           t1 == IF raises THEN t0 ELSE psolve(t0, simtime)
       IN /\ running' = TRUE
          /\ tstop' = IF raises THEN 0 ELSE simtime
          /\ t' = t1
          /\ \E keep \in BOOLEAN :
               \E fired \in [Ids -> SUBSET SpikeTimes] :
                 /\ \A id \in Ids : fired[id] \in MaySpike(id, t0, t1)
                 /\ spiketimes' =
                      [id \in Ids |->
                         (IF first THEN finitialize(spiketimes, keep)[id]
                                   ELSE spiketimes[id]) \cup fired[id]]
                 /\ vtrace' =
                      [id \in Ids |->
                         (IF first THEN finitialize(vtrace, keep)[id]
                                   ELSE vtrace[id]) \cup Samples(id, t0, t1)]
          /\ session' =
               [runs |-> session.runs + 1,
                inits |-> session.inits + (IF first THEN 1 ELSE 0),
                psolves |-> session.psolves + (IF raises THEN 0 ELSE 1),
                sumDur |-> session.sumDur + (IF raises THEN 0 ELSE simtime),
                checked |-> session.checked \/ (first /\ ~raises)]
          /\ initializer' =
               IF first
               THEN [initializer EXCEPT !.memb_inits = initialize]
               ELSE initializer
          /\ lastCall' =
               [op |-> "run", simtime |-> simtime, first |-> first,
                outcome |-> IF raises THEN "AssertionError" ELSE "ok",
                psolve |-> IF raises THEN None ELSE Some(simtime),
                ret |-> IF raises THEN None ELSE Some(t1)]
    /\ UNCHANGED <<gid_counter, initialized, min_delay, num_processes,
                   mpi_rank, gid2node, netcons, rec, traces, b>>

\* ------------------------------------------------------ gids and connections
\* The population framework advances state.gid_counter by the number of cells
\* it creates.
create_cells(n) ==
    /\ gid_counter + n <= MaxGid
    /\ gid_counter' = gid_counter + n
    /\ lastCall' = [op |-> "create_cells", n |-> n]
    /\ UNCHANGED <<running, initialized, min_delay, tstop, t, num_processes,
                   mpi_rank, gid2node, netcons, rec, traces, spiketimes,
                   vtrace, session, initializer, b>>

register_gid(gid, source) ==
    /\ gid2node' = gid2node \cup {[gid |-> gid, node |-> mpi_rank,
                                   source |-> source]}
    /\ lastCall' = [op |-> "register_gid", gid |-> gid, source |-> source]
    /\ UNCHANGED <<gid_counter, running, initialized, min_delay, tstop, t,
                   num_processes, mpi_rank, netcons, rec, traces, spiketimes,
                   vtrace, session, initializer, b>>

InvalidSource_strict(source) ==
    ~source.isint \/ source.v >= gid_counter \/ source.v < 0

\* not isinstance(source, int) or source > state.gid_counter or source < 0
InvalidSource(source) ==
    ~source.isint \/ source.v > gid_counter \/ source.v < 0

\* not isinstance(target, common.IDMixin)
InvalidTarget(target) == ~target.idmixin

WeightGE0_strict(weight) == weight # None /\ weight[1] > 0

\* weight >= 0 in Python 2, where None orders below every number
WeightGE0(weight) == weight # None /\ weight[1] >= 0

\* synapse_type after "if synapse_type is None: ..."
DefaultType(weight, synapse_type) ==
    IF synapse_type = None
    THEN (IF WeightGE0(weight) THEN "excitatory" ELSE "inhibitory")
    ELSE synapse_type[1]

\* weight after "if weight is None: ..."
DefaultWeight(weight) == IF weight = None THEN DEFAULT_WEIGHT ELSE weight[1]

CorrectWeight_noflip(target, synapse_type, weight) ==
    IF Contains(<<"c", "o", "n", "d">>, target.cellclass)
    THEN Abs(weight)
    ELSE weight

CorrectWeight_signfirst(target, synapse_type, weight) ==
    IF synapse_type = "inhibitory" /\ weight > 0
    THEN weight * (-1)
    ELSE IF Contains(<<"c", "o", "n", "d">>, target.cellclass)
         THEN Abs(weight)
         ELSE weight

\* weight after the sign correction
CorrectWeight(target, synapse_type, weight) ==
    IF Contains(<<"c", "o", "n", "d">>, target.cellclass)
    THEN Abs(weight)
    ELSE IF synapse_type = "inhibitory" /\ weight > 0
         THEN weight * (-1)
         ELSE weight

DelayTooSmall_reversed(delay) == delay # None /\ delay[1] > min_delay

\* "elif delay < state.min_delay" for a delay that is not None
DelayTooSmall(delay) == delay # None /\ delay[1] < min_delay

DefaultDelay_zero(delay) == IF delay = None THEN 0 ELSE delay[1]

\* delay after "if delay is None: ..."
DefaultDelay(delay) == IF delay = None THEN min_delay ELSE delay[1]

Connection(source, target, nc) == [pre |-> source, post |-> target, nc |-> nc]

single_connect(source, target, weight, delay, synapse_type) ==
    /\ Len(netcons) < MaxConns
    /\ LET call == [op |-> "single_connect", source |-> source,
                    target |-> target, weight |-> weight, delay |-> delay,
                    synapse_type |-> synapse_type]
           syn == DefaultType(weight, synapse_type)
           w == CorrectWeight(target, syn, DefaultWeight(weight))
           nc == [gid |-> source.v, syn |-> <<target.id, syn>>,
                  weight |-> w, delay |-> DefaultDelay(delay)]
           Raise(e) == /\ lastCall' = [call EXCEPT !.op = "single_connect"]
                                      @@ [outcome |-> e, ret |-> None]
                       /\ netcons' = netcons
       IN IF InvalidSource(source) \/ InvalidTarget(target)
             \/ DelayTooSmall(delay)
          THEN Raise("ConnectionError")
          ELSE /\ netcons' = Append(netcons, nc)
               /\ lastCall' = call @@ [outcome |-> "ok", ret |->
                                Some(Connection(source, target, nc))]
    /\ UNCHANGED <<gid_counter, running, initialized, min_delay, tstop, t,
                   num_processes, mpi_rank, gid2node, rec, traces, spiketimes,
                   vtrace, session, initializer, b>>

\* ----------------------------------------------------------------- Recorder
LocalOnly_all(ids) == Range(ids)

\* The ids kept by the first lines of Recorder.record
LocalOnly(ids) ==
    IF rec.population # None
    THEN {id \in Range(ids) : id \in rec.population[1]._local_ids}
    ELSE Range(ids)

NewIds_all(ids) == ids

\* new_ids = list(ids.difference(self.recorded))
NewIds(ids) == ids \ rec.recorded

record(ids) ==
    /\ LET kept == LocalOnly(ids)
           new_ids == NewIds(kept)
       IN /\ rec' = [rec EXCEPT !.recorded = rec.recorded \cup kept]
          /\ traces' =
               [id \in Ids |->
                  IF id \in new_ids
                  THEN IF rec.variable = "spikes"
                       THEN [traces[id] EXCEPT !.spikes = @ + 1]
                       ELSE IF rec.variable = "v"
                            THEN [traces[id] EXCEPT !.v = @ + 1]
                            ELSE traces[id]
                  ELSE traces[id]]
          /\ lastCall' = [op |-> "record", ids |-> ids, new_ids |-> new_ids]
    /\ UNCHANGED <<gid_counter, running, initialized, min_delay, tstop, t,
                   num_processes, mpi_rank, gid2node, netcons, spiketimes,
                   vtrace, session, initializer, b>>

InTime_strict(s) == s < t + Tol

\* spikes[spikes <= state.t + 1e-9]
InTime(s) == s <= t + Tol

\* The rows Recorder.get builds for one recorded id
SpikeRows(id) == {<<s, id>> : s \in {x \in spiketimes[id] : InTime(x)}}
VRows(id) == {<<tv[1], tv[2], id>> : tv \in vtrace[id]}

\* The rows of the table returned by Recorder.get
Data ==
    IF rec.variable = "spikes"
    THEN UNION {SpikeRows(id) : id \in rec.recorded}
    ELSE UNION {VRows(id) : id \in rec.recorded}

get ==
    /\ lastCall' = [op |-> "get", data |-> Data]
    /\ UNCHANGED <<gid_counter, running, initialized, min_delay, tstop, t,
                   num_processes, mpi_rank, gid2node, netcons, rec, traces,
                   spiketimes, vtrace, session, initializer, b>>

\* ------------------------------------------------- 9ML cell-type construction
Namespaces == {"excitatory", "inhibitory"}
\* The receive-capable event ports a synapse sub-component may expose
PortLists == {<<>>, <<"spike">>, <<"spike", "aux">>}
\* A synapse component: its namespace and the recv event ports of
\* nineml_model.subnodes[namespace]
SynComponents == [namespace : Namespaces, recv_event_ports : PortLists]

\* Python's == on a list and a tuple: equal only when of the same type
PyEq(x, y) == x.type = y.type /\ x.items = y.items
PyList(items) == [type |-> "list", items |-> items]
PyTuple(items) == [type |-> "tuple", items |-> items]

\* nineml_celltype_from_model(name, nineml_model, synapse_components) enters
\* _nest_build_nineml_celltype.__new__
nineml_celltype_from_model(synapse_components) ==
    /\ b.pc \in {"idle", "done", "raised"}
    /\ b' = [pc |-> "reduce", synapse_components |-> synapse_components,
             i |-> 1, synapse_ports |-> <<>>, log |-> <<>>,
             error |-> None, class |-> None]
    /\ UNCHANGED simvars

\* models.reduce_to_single_component(...); reduced_component.backsub_all()
Reduce ==
    /\ b.pc = "reduce"
    /\ b' = [b EXCEPT !.pc = "ports",
                      !.log = Append(@, "reduce_to_single_component")]
    /\ UNCHANGED simvars

Ambiguous_none(recv_event_ports) == Len(recv_event_ports) = 0

\* len(recv_event_ports) != 1
Ambiguous(recv_event_ports) == Len(recv_event_ports) # 1

SynapsePort_warn ==
    /\ b.pc = "ports"
    /\ IF b.i > Len(b.synapse_components)
       THEN b' = [b EXCEPT !.pc = "dct"]
       ELSE LET syn == b.synapse_components[b.i]
            IN IF Len(syn.recv_event_ports) # 1
               THEN b' = [b EXCEPT !.i = @ + 1]
               ELSE b' = [b EXCEPT !.i = @ + 1,
                                   !.synapse_ports =
                                       Append(@, <<syn.namespace, "_",
                                                   syn.recv_event_ports[1]>>)]
    /\ UNCHANGED simvars

\* One iteration of "for syn in synapse_components", or the end of the loop
SynapsePort ==
    /\ b.pc = "ports"
    /\ IF b.i > Len(b.synapse_components)
       THEN b' = [b EXCEPT !.pc = "dct"]
       ELSE LET syn == b.synapse_components[b.i]
            IN IF Ambiguous(syn.recv_event_ports)
               THEN b' = [b EXCEPT !.pc = "raised",
                                   !.error = Some("ValueError")]
               ELSE b' = [b EXCEPT !.i = @ + 1,
                                   !.synapse_ports =
                                       Append(@, <<syn.namespace, "_",
                                                   syn.recv_event_ports[1]>>)]
    /\ UNCHANGED simvars

\* dct["synapse_types"] and dct["standard_receptor_type"]
SynapseTypes(synapse_components) ==
    PyList([k \in 1..Len(synapse_components) |->
               synapse_components[k].namespace])
StandardReceptorType(synapse_types) ==
    PyEq(synapse_types, PyTuple(<<"excitatory", "inhibitory">>))

\* The entries added to dct
BuildDct ==
    /\ b.pc = "dct"
    /\ LET synapse_types == SynapseTypes(b.synapse_components)
       IN b' = [b EXCEPT !.pc = "compile",
                  !.class = Some([synapse_types |-> synapse_types,
                                  standard_receptor_type |->
                                      StandardReceptorType(synapse_types),
                                  synapse_ports |-> b.synapse_ports])]
    /\ UNCHANGED simvars

\* nfb.compile_files()
CompileFiles ==
    /\ b.pc = "compile"
    /\ b' = [b EXCEPT !.pc = "install", !.log = Append(@, "compile_files")]
    /\ UNCHANGED simvars

\* nest.Install('mymodule'); return type.__new__(cls, name, bases, dct)
Install ==
    /\ b.pc = "install"
    /\ b' = [b EXCEPT !.pc = "done", !.log = Append(@, "Install")]
    /\ UNCHANGED simvars

\* ------------------------------------------------------------ specifications
\* The calls of single_connect made in the lifecycle specification
LifeSources == {IntSrc(0)}
LifeTargets == {[idmixin |-> TRUE, id |-> 1, cellclass |-> IF_curr_exp]}

Next ==
    \/ \E val \in MinDelays : set_min_delay(val)
    \/ \E src \in LifeSources, tgt \in LifeTargets, d \in OptDelays :
          single_connect(src, tgt, Some(25), d, None)
    \/ \E simtime \in SimTimes : run(simtime)
    \/ reset

Spec == Init /\ [][Next]_vars

\* The calls of single_connect made in the wiring specification: every
\* combination of weight, delay, synapse type and cell class with the source
\* 5 and a cell identifier as target, and every source and target with one
\* choice of the other arguments.
Calls ==
    {c \in [source : Sources, target : Targets, weight : OptWeights,
            delay : OptDelays, synapse_type : OptSynTypes] :
        \/ c.source = IntSrc(5) /\ c.target.idmixin
        \/ c.weight = Some(25) /\ c.delay = None /\ c.synapse_type = None}

NextConn ==
    \/ \E n \in GidSteps : create_cells(n)
    \/ \E val \in MinDelays : set_min_delay(val)
    \/ \E gid \in GidSteps, source \in LocalIds : register_gid(gid, source)
    \/ \E c \in Calls :
          single_connect(c.source, c.target, c.weight, c.delay,
                         c.synapse_type)

InitConn ==
    /\ Init
    /\ num_processes = 1
    /\ rec.variable = "spikes"
    /\ rec.population = None

SpecConn == InitConn /\ [][NextConn]_vars

NextRec ==
    \/ \E ids \in SeqsUpTo(Ids, MaxRecordLen) : record(ids)
    \/ get
    \/ \E simtime \in SimTimes : run(simtime)
    \/ reset

InitRec ==
    /\ Init
    /\ num_processes = 1

SpecRec == InitRec /\ [][NextRec]_vars

NextBuild ==
    \/ \E sc \in SeqsUpTo(SynComponents, MaxSyn) :
          nineml_celltype_from_model(sc)
    \/ Reduce
    \/ SynapsePort
    \/ BuildDct
    \/ CompileFiles
    \/ Install

SpecBuild == InitConn /\ [][NextBuild]_vars

NextInit ==
    \/ \E items \in SeqsUpTo(Items, MaxItems) : register(items)
    \/ \E simtime \in {30} : run(simtime)
    \/ reset

SpecInit == InitConn /\ [][NextInit]_vars

\* Every operation of the module, each with one or two choices of arguments
NextAll ==
    \/ \E n \in GidSteps : create_cells(n)
    \/ set_min_delay(1)
    \/ register_gid(5, 1)
    \/ single_connect(IntSrc(5), [idmixin |-> TRUE, id |-> 1,
                                  cellclass |-> IF_curr_exp],
                      Some(25), None, None)
    \/ record(<<1>>)
    \/ get
    \/ register(<<Cell(1, TRUE), Population(IF_curr_exp, <<4, 5>>)>>)
    \/ run(30)
    \/ reset

SpecAll == InitConn /\ [][NextAll]_vars

\* ------------------------------------------------------------------ claims
IsConnect(c) == c.op = "single_connect"

\* C1: within one running session the stop time after a completed run is
\* the sum of the durations of the session's completed runs, and that sum is
\* what the engine is asked to integrate up to.
C1_Additive ==
    (lastCall.op = "run" /\ lastCall.outcome = "ok")
        => /\ tstop = session.sumDur
           /\ lastCall.psolve = Some(session.sumDur)

\* C2: a single_connect call with a valid source, a valid target and an
\* explicit delay below the configured minimum delay raises ConnectionError,
\* returns no Connection and makes no NetCon.
C2_SmallDelayRaises ==
    [][(/\ IsConnect(lastCall')
        /\ lastCall'.source.isint
        /\ lastCall'.source.v >= 0
        /\ lastCall'.source.v <= gid_counter
        /\ lastCall'.target.idmixin
        /\ lastCall'.delay # None
        /\ lastCall'.delay[1] < min_delay)
       => (/\ lastCall'.outcome = "ConnectionError"
           /\ lastCall'.ret = None
           /\ netcons' = netcons)]_vars

C2_Witness ==
    /\ IsConnect(lastCall)
    /\ lastCall.source = IntSrc(5)
    /\ gid_counter = 5
    /\ lastCall.target.idmixin
    /\ lastCall.delay = Some(0)
    /\ min_delay = 1
    /\ lastCall.outcome = "ConnectionError"
    /\ netcons = <<>>

\* C3: the first run of a session raises the assertion exactly when there is
\* more than one process and the computed minimum delay (the smallest NetCon
\* delay, at most 10) is below the configured one; a raising run does not
\* call psolve, and no run raises with a single process.
C3_FirstRunAssertion ==
    lastCall.op = "run" =>
        /\ lastCall.first =>
             ((lastCall.outcome = "AssertionError")
                <=> (/\ num_processes > 1
                     /\ \/ MaxStep < min_delay
                        \/ \E i \in 1..Len(netcons) :
                              netcons[i].delay < min_delay))
        /\ lastCall.outcome = "AssertionError"
             => (lastCall.psolve = None /\ session.psolves = 0)
        /\ num_processes = 1 => lastCall.outcome = "ok"

C3_Witness ==
    /\ lastCall.op = "run"
    /\ lastCall.first
    /\ lastCall.outcome = "AssertionError"
    /\ num_processes = 2
    /\ min_delay = 1
    /\ Len(netcons) = 1
    /\ netcons[1].delay = 0
    /\ session.psolves = 0

\* C4: single_connect raises ConnectionError, returning no Connection and
\* making no NetCon, when the source is not an int, is negative or exceeds
\* the gid counter, or when the target is no cell identifier; a source that
\* is an int in 0..gid_counter passes the source check, so that the call
\* succeeds when the target and the delay are valid too.
C4_SourceTargetChecks ==
    [][IsConnect(lastCall') =>
         /\ (\/ ~lastCall'.source.isint
             \/ lastCall'.source.v < 0
             \/ lastCall'.source.v > gid_counter
             \/ ~lastCall'.target.idmixin)
              => (/\ lastCall'.outcome = "ConnectionError"
                  /\ lastCall'.ret = None
                  /\ netcons' = netcons)
         /\ (/\ lastCall'.source.isint
             /\ lastCall'.source.v >= 0
             /\ lastCall'.source.v <= gid_counter
             /\ lastCall'.target.idmixin
             /\ (lastCall'.delay = None \/ lastCall'.delay[1] >= min_delay))
              => (/\ lastCall'.outcome = "ok"
                  /\ Len(netcons') = Len(netcons) + 1)]_vars

C4_Witness ==
    /\ IsConnect(lastCall)
    /\ lastCall.source.isint
    /\ gid_counter = 5
    /\ lastCall.source.v > gid_counter
    /\ lastCall.target.idmixin
    /\ lastCall.outcome = "ConnectionError"

\* C5: with the synapse type unspecified and a weight w given, the synapse
\* object connected to is the target's "excitatory" one when w >= 0 and its
\* "inhibitory" one when w < 0.
C5_DefaultSynapseType ==
    (/\ IsConnect(lastCall)
     /\ lastCall.outcome = "ok"
     /\ lastCall.synapse_type = None
     /\ lastCall.weight # None)
        => lastCall.ret[1].nc.syn =
              <<lastCall.target.id,
                IF lastCall.weight[1] >= 0 THEN "excitatory"
                                           ELSE "inhibitory">>

C5_Witness ==
    /\ IsConnect(lastCall)
    /\ lastCall.outcome = "ok"
    /\ lastCall.synapse_type = None
    /\ lastCall.weight = Some(0)
    /\ lastCall.ret[1].nc.syn[2] = "excitatory"

\* C6: on a conductance-based target the weight stored by a successful
\* single_connect is non-negative and has the magnitude of the weight given,
\* whatever its sign and whatever the synapse type.
C6_CondWeightNonNegative ==
    (/\ IsConnect(lastCall)
     /\ lastCall.outcome = "ok"
     /\ lastCall.target.cellclass = IF_cond_exp
     /\ lastCall.weight # None)
        => LET stored == lastCall.ret[1].nc.weight
               given == lastCall.weight[1]
           IN /\ stored >= 0
              /\ (stored = given \/ stored = 0 - given)
              /\ netcons[Len(netcons)].weight = stored

C6_Witness ==
    /\ IsConnect(lastCall)
    /\ lastCall.outcome = "ok"
    /\ lastCall.target.cellclass = IF_cond_exp
    /\ lastCall.weight = Some(-25)
    /\ lastCall.synapse_type = Some("inhibitory")
    /\ lastCall.ret[1].nc.weight = 25

\* The scenario call of C7: source 5, a cell identifier as target, weight
\* 2.5, delay None, synapse type unspecified
IsScenarioCall(c) ==
    /\ IsConnect(c)
    /\ c.source = IntSrc(5)
    /\ c.target.idmixin
    /\ c.weight = Some(25)
    /\ c.delay = None
    /\ c.synapse_type = None

\* C7 as stated: once gid 5 is registered, the scenario call succeeds with
\* the configured minimum delay and the weight 2.5.
C7_RegisteredGidAccepted ==
    (/\ IsScenarioCall(lastCall)
     /\ \E g \in gid2node : g.gid = 5 /\ g.node = 0)
        => /\ lastCall.outcome = "ok"
           /\ lastCall.ret[1].nc.delay = min_delay
           /\ lastCall.ret[1].nc.weight = 25

\* C7 amended: the scenario call succeeds exactly when the gid counter is at
\* least 5, registered or not, and then connects gid 5 with the configured
\* minimum delay and the weight 2.5; otherwise it raises ConnectionError.
\* Every successful call with the delay unspecified stores the minimum delay
\* configured at the time of the call.
C7_CounterDecides ==
    /\ IsScenarioCall(lastCall) =>
         IF gid_counter >= 5
         THEN /\ lastCall.outcome = "ok"
              /\ lastCall.ret[1].nc.gid = 5
              /\ lastCall.ret[1].nc.delay = min_delay
              /\ lastCall.ret[1].nc.weight = 25
         ELSE /\ lastCall.outcome = "ConnectionError"
              /\ lastCall.ret = None
    /\ (IsConnect(lastCall) /\ lastCall.outcome = "ok"
          /\ lastCall.delay = None)
         => lastCall.ret[1].nc.delay = min_delay

C7_Witness ==
    /\ IsScenarioCall(lastCall)
    /\ \E g \in gid2node : g.gid = 5 /\ g.node = 0
    /\ gid_counter = 5
    /\ min_delay = 1
    /\ lastCall.outcome = "ok"
    /\ lastCall.ret[1].nc.delay = 1
    /\ lastCall.ret[1].nc.weight = 25

\* The number of times the Recorder's trace was enabled on the cell of id
TraceCount(id) ==
    IF rec.variable = "spikes" THEN traces[id].spikes ELSE traces[id].v

\* C8: the tracked set only grows, the trace of an id is enabled once on the
\* step that adds the id to the tracked set and on no other step, so that
\* every tracked id has had its trace enabled exactly once.
C8_TraceOncePerId ==
    /\ [](\A id \in Ids :
            TraceCount(id) = IF id \in rec.recorded THEN 1 ELSE 0)
    /\ [][/\ rec.recorded \subseteq rec'.recorded
          /\ \A id \in Ids :
               TraceCount(id)' =
                  TraceCount(id)
                    + (IF id \in rec'.recorded \ rec.recorded THEN 1 ELSE 0)
         ]_vars

C8_Witness ==
    /\ lastCall.op = "record"
    /\ lastCall.new_ids # {}
    /\ \E id \in Range(lastCall.ids) :
          id \notin lastCall.new_ids /\ id \in rec.recorded
    /\ \A id \in rec.recorded : TraceCount(id) = 1

\* C9: the table returned by get for "spikes" has no row later than the
\* current time plus the tolerance, and has exactly the rows (spike time, id)
\* of the recorded spikes of the tracked ids up to that bound.
C9_SpikesUpToNow ==
    (lastCall.op = "get" /\ rec.variable = "spikes")
        => /\ \A row \in lastCall.data :
                /\ row[1] <= t + Tol
                /\ row[2] \in rec.recorded
                /\ row[1] \in spiketimes[row[2]]
           /\ \A id \in rec.recorded :
                \A s \in spiketimes[id] :
                   s <= t + Tol => <<s, id>> \in lastCall.data

C9_Witness ==
    /\ lastCall.op = "get"
    /\ rec.variable = "spikes"
    /\ t = 0
    /\ ~running
    /\ \E id \in rec.recorded :
          /\ {1, 40} \subseteq spiketimes[id]
          /\ <<1, id>> \in lastCall.data
          /\ <<40, id>> \notin lastCall.data

\* Some synapse component of the construction exposes zero or several
\* receive-capable event ports
SomeAmbiguous ==
    \E k \in 1..Len(b.synapse_components) :
        Len(b.synapse_components[k].recv_event_ports) # 1

C11_ResetIdempotent ==
    /\ [](lastCall.op = "reset" => (~running /\ t = 0 /\ tstop = 0))
    /\ [][(lastCall.op = "reset" /\ lastCall'.op = "reset")
            => UNCHANGED vars]_vars

C11_Witness ==
    /\ lastCall.op = "reset"
    /\ \E id \in Ids : 40 \in spiketimes[id]
    /\ ~running
    /\ t = 0
    /\ tstop = 0

\* The memb_init calls the registration history asks for: the ids of the
\* individual cells with the capability, in registration order
RECURSIVE CellsOf(_)
CellsOf(history) ==
    IF history = <<>>
    THEN <<>>
    ELSE (IF Head(history).kind = "cell" /\ Head(history).memb_init
          THEN <<Head(history).id>>
          ELSE <<>>) \o CellsOf(Tail(history))

\* ... and the members of the populations that are no spike sources
RECURSIVE MembersOf(_)
MembersOf(history) ==
    IF history = <<>>
    THEN <<>>
    ELSE (IF Head(history).kind = "population"
             /\ Head(history).celltype # SpikeSourcePoisson
          THEN Head(history).cells
          ELSE <<>>) \o MembersOf(Tail(history))

\* C12: the memb_init calls of the initialize callback are the registered
\* cells that have the capability, in registration order, followed by the
\* members of the registered populations that are no spike sources,
\* population after population in registration order.
C12_InitializeOrder ==
    (lastCall.op = "run" /\ lastCall.first)
        => initializer.memb_inits =
              CellsOf(initializer.registered)
                 \o MembersOf(initializer.registered)

C12_Witness ==
    /\ lastCall.op = "run"
    /\ lastCall.first
    /\ initializer.registered =
          <<Population(IF_curr_exp, <<4, 5>>),
            Population(SpikeSourcePoisson, <<7>>), Cell(1, TRUE)>>
    /\ initializer.memb_inits = <<1, 4, 5>>

\* C13: the one-time engine initialisation is done by the first run of a
\* session and by no later run of it: a session with runs has had exactly
\* one, a run is a first run exactly when it is the session's first, and a
\* first run that raises leaves the stop time re-zeroed.
C13_InitOncePerSession ==
    /\ session.runs = 0 => session.inits = 0
    /\ session.runs >= 1 => session.inits = 1
    /\ lastCall.op = "run" =>
         /\ lastCall.first <=> session.runs = 1
         /\ (lastCall.first /\ lastCall.outcome = "AssertionError")
              => tstop = 0

C13_Witness ==
    /\ lastCall.op = "run"
    /\ ~lastCall.first
    /\ session.runs = 2
    /\ session.inits = 1
    /\ Len(netcons) = 1

\* C14: on a target that is not conductance-based, a successful
\* single_connect with a given non-zero weight and the resolved type
\* "inhibitory" stores a negative weight of the same magnitude, and with the
\* resolved type "excitatory" it stores the weight given.
C14_CurrentBasedSign ==
    (/\ IsConnect(lastCall)
     /\ lastCall.outcome = "ok"
     /\ lastCall.target.cellclass = IF_curr_exp
     /\ lastCall.weight # None)
        => LET stored == lastCall.ret[1].nc.weight
               given == lastCall.weight[1]
               resolved == lastCall.ret[1].nc.syn[2]
           IN /\ (lastCall.synapse_type # None
                    => resolved = lastCall.synapse_type[1])
              /\ (resolved = "inhibitory" /\ given # 0)
                    => (stored < 0 /\ (stored = given \/ stored = 0 - given))
              /\ resolved = "excitatory" => stored = given

C14_Witness ==
    /\ IsConnect(lastCall)
    /\ lastCall.outcome = "ok"
    /\ lastCall.target.cellclass = IF_curr_exp
    /\ lastCall.weight = Some(25)
    /\ lastCall.synapse_type = Some("inhibitory")
    /\ lastCall.ret[1].nc.weight = -25

\* C15: a successful single_connect with the weight unspecified stores the
\* default weight, and with the synapse type unspecified too it connects to
\* the "excitatory" synapse.
C15_DefaultWeight ==
    (/\ IsConnect(lastCall)
     /\ lastCall.outcome = "ok"
     /\ lastCall.weight = None)
        => /\ lastCall.ret[1].nc.weight = DEFAULT_WEIGHT
           /\ lastCall.synapse_type = None
                => lastCall.ret[1].nc.syn[2] = "excitatory"

\* C16: a Recorder with a population tracks local ids only and enables no
\* trace on an id that is not local; a record call whose ids are all
\* non-local changes neither the tracked set nor any trace.
C16_LocalOnly ==
    /\ [](rec.population # None =>
            /\ rec.recorded \subseteq LocalIds
            /\ \A id \in Ids \ LocalIds :
                  traces[id].spikes = 0 /\ traces[id].v = 0)
    /\ [][(/\ lastCall'.op = "record"
           /\ rec.population # None
           /\ Range(lastCall'.ids) \cap LocalIds = {})
          => UNCHANGED <<rec, traces>>]_vars

C16_Witness ==
    /\ lastCall.op = "record"
    /\ rec.population # None
    /\ Range(lastCall.ids) = {1, 2}
    /\ rec.recorded = {1}
    /\ traces[2].spikes = 0
    /\ traces[2].v = 0
    /\ traces[1].spikes + traces[1].v = 1

\* C17: the standard-receptor flag of the generated cell type is true
\* exactly when the synapse namespaces are "excitatory", "inhibitory" in
\* that order.
C17_StandardReceptorFlag ==
    b.pc \in {"compile", "install", "done"}
        => (b.class[1].standard_receptor_type
              <=> b.class[1].synapse_types.items
                     = <<"excitatory", "inhibitory">>)

InLog(x) == \E k \in 1..Len(b.log) : b.log[k] = x

\* C18: files are compiled only once every synapse component is resolved
\* to its single receive port, the module is installed only after the
\* compilation, the class is returned only after the installation, and a
\* construction that fails on a port compiles and installs nothing and
\* returns no class.
C18_FailFastOrder ==
    b.pc # "idle" =>
        /\ InLog("compile_files") =>
              /\ Len(b.synapse_ports) = Len(b.synapse_components)
              /\ \A k \in 1..Len(b.synapse_components) :
                    /\ Len(b.synapse_components[k].recv_event_ports) = 1
                    /\ b.synapse_ports[k] =
                          <<b.synapse_components[k].namespace, "_",
                            b.synapse_components[k].recv_event_ports[1]>>
        /\ InLog("Install") =>
              \E i, j \in 1..Len(b.log) :
                  i < j /\ b.log[i] = "compile_files" /\ b.log[j] = "Install"
        /\ b.pc = "done" => (InLog("Install") /\ b.class # None)
        /\ b.pc = "raised" =>
              /\ ~InLog("compile_files")
              /\ ~InLog("Install")
              /\ b.class = None

C18_Witness ==
    /\ b.pc = "done"
    /\ Len(b.synapse_components) = 2
    /\ b.log = <<"reduce_to_single_component", "compile_files", "Install">>
    /\ Len(b.synapse_ports) = 2

\* C19: with more than one process, the engine integrates in a session only
\* after a minimum-delay check has passed in that session.
C19_CheckedBeforePsolve ==
    (num_processes > 1 /\ session.psolves > 0) => session.checked

\* C20: a reset step changes nothing but the running flag, the current time
\* and the stop time (and the history of the session), and no step of any
\* operation decreases the gid counter.
C20_ResetFrame ==
    /\ [][lastCall'.op = "reset"
            => UNCHANGED <<gid_counter, min_delay, initialized,
                           num_processes, mpi_rank, rec, traces,
                           initializer, gid2node, netcons, spiketimes,
                           vtrace, b>>]_vars
    /\ [][gid_counter' >= gid_counter]_vars

C20_Witness ==
    /\ lastCall.op = "reset"
    /\ gid_counter = 5
    /\ min_delay = 1
    /\ rec.recorded = {1}
    /\ Len(initializer.cell_list) = 1
    /\ Len(initializer.population_list) = 1
    /\ initializer.memb_inits = <<1, 4, 5>>
    /\ Len(netcons) = 1

====
